---- MODULE Spec2Model ----
(***************************************************************************)
(* Point-in-time recall-history features for medical devices.              *)
(*                                                                         *)
(*   batch  : train_multiclass_no_device_dates.py  (per-row cumulative     *)
(*            counts over the whole event log)                             *)
(*   online : predict.py  (_device_history / _manufacturer_history on the  *)
(*            MongoDB events collection, and the pre_multiclass request)   *)
(*                                                                         *)
(* Time is counted in ticks; TicksPerDay ticks make one day.  A timestamp  *)
(* field holds NaT (null / missing), Bad (present, but not a timestamp) or *)
(* a tick >= 1.  Ids are strings; NoId is None / NaN / a missing id.       *)
(***************************************************************************)
EXTENDS Integers, Sequences, FiniteSets, TLC

\* ------------------------------------------------------------------ bounds
MaxEvents == 2

MaxTime == 2

TicksPerDay == 2

\* ------------------------------------------------------------- value space
\* null, None, NaN of a timestamp column, pd.NaT
NaT == 0

\* a value that is present but is no timestamp (to_dt coerces it to NaT)
Bad == -1

\* NaN of a numeric column
NaN == -2

NoId == ""

Times == 1..MaxTime

FieldVals == {NaT, Bad} \cup Times

AsOfs == 0..(MaxTime + TicksPerDay)

LabeledClasses == {"CLASS I", "CLASS II", "CLASS III"}

Classes == LabeledClasses \cup {"OTHER"}

\* device ids in their sort order (sort_values orders ids as strings)
DeviceOrder == <<"D1", "D2", "D3">>

Devices == {DeviceOrder[i] : i \in 1..Len(DeviceOrder)}

ManufacturerOrder == <<"M1", "M2">>

Manufacturers == {ManufacturerOrder[i] : i \in 1..Len(ManufacturerOrder)}

\* the devices collection: id -> manufacturer_id (NoId: the device has none)
devices == [d \in Devices |-> CASE d = "D1" -> "M1" [] d = "D2" -> "M1" [] OTHER -> NoId]

\* ids a request can name: the known ones and one the store has never seen
QueryDeviceIds == Devices \cup {"D0"}

QueryManufacturerIds == Manufacturers

VARIABLES events, out, resolved, req, storeUp

vars == <<events, out, resolved, req, storeUp>>

\* ------------------------------------------------- temporal key resolver
\* batch: pd.to_datetime(s, errors="coerce"): what does not parse becomes NaT
to_dt(s) == IF s \in Nat /\ s >= 1 THEN s ELSE NaT

notna(v) == v # NaT

\* batch: the three date columns are parsed in place before the rows are read
ParseDates(e) ==
    [e EXCEPT !.date = to_dt(@), !.date_posted = to_dt(@), !.date_updated = to_dt(@)]

\* faulty variant of the batch resolver: date_updated is tried first
choose_event_time_UpdatedFirst(row) ==
    IF notna(row.date_updated) THEN row.date_updated
    ELSE IF notna(row.date) THEN row.date
    ELSE IF notna(row.date_posted) THEN row.date_posted
    ELSE NaT

\* batch: first column, in the order date, date_posted, date_updated, that is
\* not NaT in the (already parsed) row
choose_event_time(row) ==
    IF notna(row.date) THEN row.date
    ELSE IF notna(row.date_posted) THEN row.date_posted
    ELSE IF notna(row.date_updated) THEN row.date_updated
    ELSE NaT

\* Mongo $ifNull: the first operand unless it is null or missing
IfNull(a, b) == IF a # NaT THEN a ELSE b

\* online: {"$ifNull": ["$date", {"$ifNull": ["$date_posted", "$date_updated"]}]}
event_time_expr(doc) == IfNull(doc.date, IfNull(doc.date_posted, doc.date_updated))

\* ------------------------------------------------- online history (Mongo)
SetMax(S) == CHOOSE x \in S : \A y \in S : y <= x

\* faulty variant of the cutoff match: only events exactly at the cutoff
MatchLte_OnlyAtCutoff(v, as_of) == v \in Nat /\ v >= 1 /\ v = as_of

\* {"$lte": as_of} with as_of a date: a query comparison matches only values
\* of the operand's own BSON type, so a value that is no date never matches
MatchLte(v, as_of) == v \in Nat /\ v >= 1 /\ v <= as_of

\* {"$ne": None}
MatchNeNone(v) == v # NaT

\* stages 1-3 of the pipeline: the positions of the documents of entity `id`
\* (field `key`) whose event_time is not null and is <= as_of
MatchedDocs(store, key, id, as_of) ==
    {i \in 1..Len(store) :
        /\ store[i][key] = id
        /\ MatchNeNone(event_time_expr(store[i]))
        /\ MatchLte(event_time_expr(store[i]), as_of)}

\* stages 4-6: group by action_classification (cnt, max_time), then one
\* document {map: class -> cnt, last_time}; no document when nothing matched
Aggregate(store, key, id, as_of) ==
    LET docs == MatchedDocs(store, key, id, as_of)
        ks == {store[i].action_classification : i \in docs}
        grp == [k \in ks |->
                  LET m == {i \in docs : store[i].action_classification = k}
                  IN [cnt |-> Cardinality(m),
                      max_time |-> SetMax({event_time_expr(store[i]) : i \in m})]]
    IN IF docs = {} THEN <<>>
       ELSE << [map |-> [k \in ks |-> grp[k].cnt],
                last_time |-> SetMax({grp[k].max_time : k \in ks})] >>

\* dict.get(k, default)
MapGet(m, k, default) == IF k \in DOMAIN m THEN m[k] ELSE default

\* faulty variant of the day count: a started day counts as a whole one
DaysBetween_RoundedUp(as_of, last) == (as_of - last + TicksPerDay - 1) \div TicksPerDay

\* (as_of - last).days
DaysBetween(as_of, last) == (as_of - last) \div TicksPerDay

\* faulty variant of the empty device snapshot: days_since_prev 0
ZeroDeviceHistory_DaysZero ==
    [dev_is_I_cum_past |-> 0, dev_is_II_cum_past |-> 0, dev_is_III_cum_past |-> 0,
     device_past_recalls_total |-> 0, device_prev_time |-> NaT,
     device_days_since_prev |-> 0]

ZeroDeviceHistory ==
    [dev_is_I_cum_past |-> 0, dev_is_II_cum_past |-> 0, dev_is_III_cum_past |-> 0,
     device_past_recalls_total |-> 0, device_prev_time |-> NaT,
     device_days_since_prev |-> -1]

ZeroManufacturerHistory ==
    [mfr_is_I_cum_past |-> 0, mfr_is_II_cum_past |-> 0, mfr_is_III_cum_past |-> 0,
     mfr_past_recalls_total |-> 0, mfr_prev_time |-> NaT,
     mfr_days_since_prev |-> -1]

device_history(db, device_id, as_of) ==
    LET agg == Aggregate(db, "device_id", device_id, as_of)
    IN IF agg = <<>> THEN ZeroDeviceHistory
       ELSE LET m == agg[1].map
                last == agg[1].last_time
                cI == MapGet(m, "CLASS I", 0)
                cII == MapGet(m, "CLASS II", 0)
                cIII == MapGet(m, "CLASS III", 0)
            IN [dev_is_I_cum_past |-> cI, dev_is_II_cum_past |-> cII,
                dev_is_III_cum_past |-> cIII,
                device_past_recalls_total |-> cI + cII + cIII,
                device_prev_time |-> last,
                device_days_since_prev |->
                    IF last = NaT THEN -1 ELSE DaysBetween(as_of, last)]

manufacturer_history(db, manufacturer_id, as_of) ==
    LET agg == Aggregate(db, "manufacturer_id", manufacturer_id, as_of)
    IN IF agg = <<>> THEN ZeroManufacturerHistory
       ELSE LET m == agg[1].map
                last == agg[1].last_time
                cI == MapGet(m, "CLASS I", 0)
                cII == MapGet(m, "CLASS II", 0)
                cIII == MapGet(m, "CLASS III", 0)
            IN [mfr_is_I_cum_past |-> cI, mfr_is_II_cum_past |-> cII,
                mfr_is_III_cum_past |-> cIII,
                mfr_past_recalls_total |-> cI + cII + cIII,
                mfr_prev_time |-> last,
                mfr_days_since_prev |->
                    IF last = NaT THEN -1 ELSE DaysBetween(as_of, last)]

\* ------------------------------------------------- batch history (pandas)
IsLabeled(e) == e.action_classification \in LabeledClasses

HasDevice(e) == e.device_id # NoId

\* faulty variant of the event_time filter: every row is kept
HasEventTime_KeepAll(row) == row.event_time \in Int

HasEventTime(row) == notna(row.event_time)

\* events["event_time"] = events.apply(choose_event_time, axis=1), on the
\* parsed date columns
WithEventTime(e) ==
    [id |-> e.id, device_id |-> e.device_id,
     action_classification |-> e.action_classification,
     event_time |-> choose_event_time(ParseDates(e))]

\* left join with the devices table: the row gets its device's manufacturer_id,
\* NaN when the device is unknown or has none
MergeDevices(row) ==
    row @@ [manufacturer_id |->
              IF row.device_id \in DOMAIN devices THEN devices[row.device_id] ELSE NoId]

\* the sequence f as an explicit tuple, each element computed once
AsSeq(f) == SubSeq(f, 1, Len(f))

\* the frame the history features are computed on: labeled events with a
\* device_id and a resolvable event_time, in ingestion order
LoadFrame(ev) ==
    LET kept == SelectSeq(SelectSeq(ev, IsLabeled), HasDevice)
        timed == AsSeq([i \in 1..Len(kept) |-> WithEventTime(kept[i])])
        dated == SelectSeq(timed, HasEventTime)
    IN AsSeq([i \in 1..Len(dated) |-> MergeDevices(dated[i])])

IdOrder == DeviceOrder \o ManufacturerOrder

\* position of an id in the sort order of its column; NaN sorts last
IdRank(id) ==
    IF id = NoId THEN Len(IdOrder) + 1
    ELSE CHOOSE i \in 1..Len(IdOrder) : IdOrder[i] = id

\* row i is placed before row j by sort_values([key, "event_time"]); the
\* multi-column sort is stable, so equal keys keep the frame's current order
SortsBefore(rows, key, i, j) ==
    \/ IdRank(rows[i][key]) < IdRank(rows[j][key])
    \/ /\ rows[i][key] = rows[j][key]
       /\ \/ rows[i].event_time < rows[j].event_time
          \/ rows[i].event_time = rows[j].event_time /\ i < j

sort_values(rows, key) ==
    LET n == Len(rows)
        pos(i) == 1 + Cardinality({j \in 1..n : SortsBefore(rows, key, j, i)})
    IN AsSeq([p \in 1..n |-> rows[CHOOSE i \in 1..n : pos(i) = p]])

\* one_hot_flags: the indicator of one class
one_hot_flag(row, cls) == IF row.action_classification = cls THEN 1 ELSE 0

\* groupby(key)[col].cumsum(): per row, the sum of the indicator over the rows
\* of its group up to and including it; NaN for a row whose key is NaN
GroupCumsum(rows, key, cls) ==
    AsSeq([p \in 1..Len(rows) |->
            IF rows[p][key] = NoId THEN NaN
            ELSE Cardinality({q \in 1..p : rows[q][key] = rows[p][key]
                                            /\ one_hot_flag(rows[q], cls) = 1})])

\* Series.shift(1): every value moves down one row of the whole column
Shift1(col) == AsSeq([p \in 1..Len(col) |-> IF p = 1 THEN NaN ELSE col[p - 1]])

FillNa0(col) == AsSeq([p \in 1..Len(col) |-> IF col[p] = NaN THEN 0 ELSE col[p]])

cum_past(rows, key, cls) == FillNa0(Shift1(GroupCumsum(rows, key, cls)))

\* sort by (device_id, event_time), then the dev_is_*_cum_past columns and
\* their sum
AddDeviceHistory(frame) ==
    LET rows == sort_values(frame, "device_id")
        cI == cum_past(rows, "device_id", "CLASS I")
        cII == cum_past(rows, "device_id", "CLASS II")
        cIII == cum_past(rows, "device_id", "CLASS III")
    IN AsSeq([p \in 1..Len(rows) |->
          rows[p] @@ [dev_is_I_cum_past |-> cI[p], dev_is_II_cum_past |-> cII[p],
                      dev_is_III_cum_past |-> cIII[p],
                      device_past_recalls_total |-> cI[p] + cII[p] + cIII[p]]])

\* sort by (manufacturer_id, event_time), then the mfr_is_*_cum_past columns
\* and their sum
AddManufacturerHistory(frame) ==
    LET rows == sort_values(frame, "manufacturer_id")
        cI == cum_past(rows, "manufacturer_id", "CLASS I")
        cII == cum_past(rows, "manufacturer_id", "CLASS II")
        cIII == cum_past(rows, "manufacturer_id", "CLASS III")
    IN AsSeq([p \in 1..Len(rows) |->
          rows[p] @@ [mfr_is_I_cum_past |-> cI[p], mfr_is_II_cum_past |-> cII[p],
                      mfr_is_III_cum_past |-> cIII[p],
                      mfr_past_recalls_total |-> cI[p] + cII[p] + cIII[p]]])

\* the training table's history columns, one row per kept event
BatchTable(ev) == AddManufacturerHistory(AddDeviceHistory(LoadFrame(ev)))

\* --------------------------------------------------------------- the store
\* what the ingesting collaborator may append: an event of a known device
\* with any class; date is null, malformed or a time, and date_posted may
\* hold a time when date does not
EventInputs ==
    {in \in [device_id : Devices, action_classification : Classes,
             date : FieldVals, date_posted : {NaT, MaxTime}, date_updated : {NaT}] :
        in.date \in Times => in.date_posted = NaT}

\* the stored document: its position as id, and its device's manufacturer_id
NewEvent(in, n) ==
    [id |-> n, device_id |-> in.device_id,
     manufacturer_id |-> devices[in.device_id],
     action_classification |-> in.action_classification,
     date |-> in.date, date_posted |-> in.date_posted,
     date_updated |-> in.date_updated]

\* `out` is what the last run returned: a history snapshot of predict.py, or
\* the table of the training script with the size n of the log it read
NoOut == [kind |-> "none"]

\* `resolved` is what the two resolvers returned for the event under study
NoResolved == [batch_done |-> FALSE, batch |-> NaT, online_done |-> FALSE, online |-> NaT]

\* `req` is the pre_multiclass request in flight in predict.py
NoRequest == [pc |-> "idle"]

Init ==
    /\ events = <<>>
    /\ out = NoOut
    /\ resolved = NoResolved
    /\ req = NoRequest
    /\ storeUp = TRUE

\* an event is appended to the log; nothing stored is ever changed
Ingest(in) ==
    /\ Len(events) < MaxEvents
    /\ events' = Append(events, NewEvent(in, Len(events) + 1))
    /\ UNCHANGED <<out, resolved, req, storeUp>>

\* the training script is run over the log as it is now
RunBatch ==
    /\ out' = [kind |-> "batch", n |-> Len(events), rows |-> BatchTable(events)]
    /\ UNCHANGED <<events, resolved, req, storeUp>>

QueryDevice(id, as_of) ==
    /\ out' = [kind |-> "device", id |-> id, as_of |-> as_of]
                 @@ device_history(events, id, as_of)
    /\ UNCHANGED <<events, resolved, req, storeUp>>

QueryManufacturer(id, as_of) ==
    /\ out' = [kind |-> "manufacturer", id |-> id, as_of |-> as_of]
                 @@ manufacturer_history(events, id, as_of)
    /\ UNCHANGED <<events, resolved, req, storeUp>>

Next ==
    \/ \E in \in EventInputs : Ingest(in)
    \/ RunBatch
    \/ \E id \in QueryDeviceIds, as_of \in AsOfs : QueryDevice(id, as_of)
    \/ \E id \in QueryManufacturerIds, as_of \in AsOfs : QueryManufacturer(id, as_of)

Spec == Init /\ [][Next]_vars


\* ------------------------------------------------- the resolvers, on one event
\* every combination of null, malformed and valid values in the three fields
ResolverInputs ==
    [device_id : {"D1"}, action_classification : {"CLASS I"},
     date : FieldVals, date_posted : FieldVals, date_updated : FieldVals]

InitResolver ==
    /\ \E in \in ResolverInputs : events = <<NewEvent(in, 1)>>
    /\ out = NoOut
    /\ resolved = NoResolved
    /\ req = NoRequest
    /\ storeUp = TRUE

\* the training script parses the date columns and applies choose_event_time
ResolveBatch ==
    /\ ~resolved.batch_done
    /\ resolved' = [resolved EXCEPT !.batch_done = TRUE,
                                    !.batch = choose_event_time(ParseDates(events[1]))]
    /\ UNCHANGED <<events, out, req, storeUp>>

\* the pipeline's $addFields stage evaluates _event_time_expr on the document
ResolveOnline ==
    /\ ~resolved.online_done
    /\ resolved' = [resolved EXCEPT !.online_done = TRUE,
                                    !.online = event_time_expr(events[1])]
    /\ UNCHANGED <<events, out, req, storeUp>>

NextResolver == ResolveBatch \/ ResolveOnline

SpecResolver == InitResolver /\ [][NextResolver]_vars


\* ----------------------------------------- the pre_multiclass request (online)
PRE_FEATURES ==
    <<"risk_class", "classification", "implanted", "quantity_in_commerce",
      "country", "parent_company",
      "device_past_recalls_total", "dev_is_I_cum_past", "dev_is_II_cum_past",
      "dev_is_III_cum_past",
      "mfr_past_recalls_total", "mfr_is_I_cum_past", "mfr_is_II_cum_past",
      "mfr_is_III_cum_past",
      "device_days_since_prev", "mfr_days_since_prev">>

\* the columns the training script fits the classifier on
cat_cols == <<"risk_class", "classification", "country", "parent_company">>

bool_cols == <<"implanted">>

num_cols ==
    <<"quantity_in_commerce",
      "device_past_recalls_total",
      "dev_is_I_cum_past", "dev_is_II_cum_past", "dev_is_III_cum_past",
      "mfr_past_recalls_total",
      "mfr_is_I_cum_past", "mfr_is_II_cum_past", "mfr_is_III_cum_past">>

\* X = df[cat_cols + bool_cols + num_cols]
TrainColumns == cat_cols \o bool_cols \o num_cols

\* a flag that was not given is None; "" stands for it
None == ""

\* str(v).strip().lower() on the values a flag is given here
PyStr(v) == IF v = None THEN "None" ELSE v

StripLower(s) ==
    CASE s = "None" -> "none"
      [] s = "Yes " -> "yes"
      [] OTHER -> s

\* faulty variant of the flag conversion: a flag that was not given counts
\* as set
bool01_MissingIsSet(v) ==
    IF v = None \/ StripLower(PyStr(v)) \in {"true", "1", "yes", "y"} THEN 1 ELSE 0

bool01(v) == IF StripLower(PyStr(v)) \in {"true", "1", "yes", "y"} THEN 1 ELSE 0

\* float(v) raises on None and on text that is no number
FloatParses(v) == v \in {"5"}

FloatOf(v) == CASE v = "5" -> 5 [] OTHER -> 0

to_float(v) == IF FloatParses(v) THEN FloatOf(v) ELSE 0

\* getattr(ns, k, "") or ""
OrEmpty(v) == IF v = None THEN "" ELSE v

\* the six static entries of the feature dict
StaticFeatures(ns) ==
    [risk_class |-> OrEmpty(ns.risk_class),
     classification |-> OrEmpty(ns.classification),
     implanted |-> bool01(ns.implanted),
     quantity_in_commerce |-> to_float(ns.quantity_in_commerce),
     country |-> OrEmpty(ns.country),
     parent_company |-> OrEmpty(ns.parent_company)]

\* out.update({...}): the ten history entries taken from the two snapshots
HistoryFeatures(dev_counts, mfr_counts) ==
    [device_past_recalls_total |-> dev_counts.device_past_recalls_total,
     dev_is_I_cum_past |-> dev_counts.dev_is_I_cum_past,
     dev_is_II_cum_past |-> dev_counts.dev_is_II_cum_past,
     dev_is_III_cum_past |-> dev_counts.dev_is_III_cum_past,
     device_days_since_prev |-> dev_counts.device_days_since_prev,
     mfr_past_recalls_total |-> mfr_counts.mfr_past_recalls_total,
     mfr_is_I_cum_past |-> mfr_counts.mfr_is_I_cum_past,
     mfr_is_II_cum_past |-> mfr_counts.mfr_is_II_cum_past,
     mfr_is_III_cum_past |-> mfr_counts.mfr_is_III_cum_past,
     mfr_days_since_prev |-> mfr_counts.mfr_days_since_prev]

\* row = {k: features.get(k, "") for k in PRE_FEATURES}; X = pd.DataFrame([row])
FeatureRow(features) ==
    [columns |-> PRE_FEATURES,
     values |-> [k \in {PRE_FEATURES[i] : i \in 1..Len(PRE_FEATURES)} |->
                   IF k \in DOMAIN features THEN features[k] ELSE ""]]

NoRow == [columns |-> <<>>, values |-> <<>>]

\* db.devices.find_one({"id": device_id}); (doc or {}).get("manufacturer_id")
get_device_manufacturer_id(device_id) ==
    IF device_id \in DOMAIN devices THEN devices[device_id] ELSE None

\* an exception that leaves run_pre_multiclass_from_flags: main prints
\* "ERROR: ..." to stderr and exits with 3; nothing is printed to stdout
Raise(r, what) ==
    [r EXCEPT !.pc = "done", !.exit = 3, !.stderr = "ERROR", !.raised = what]

RequiredMissing(ns) ==
    \/ ns.risk_class = None \/ ns.classification = None
    \/ ns.country = None \/ ns.parent_company = None

\* the flags a request may carry
RequestInputs ==
    [device_id : {None, "D1", "D3", "D0"}, manufacturer_id : {None, "M1"},
     risk_class : {None, "III"}, classification : {None, "Cardiac"},
     implanted : {None, "true", "Yes ", "false"},
     quantity_in_commerce : {None, "abc", "5"},
     country : {None, "USA"}, parent_company : {None, "Abbott"}]

\* the logs a request may find in the store
RequestStores ==
    LET e(d, c, t) == [device_id |-> d, action_classification |-> c, date |-> t,
                       date_posted |-> NaT, date_updated |-> NaT]
    IN {<<>>,
        <<NewEvent(e("D1", "CLASS I", 1), 1)>>,
        <<NewEvent(e("D1", "CLASS II", 1), 1), NewEvent(e("D2", "CLASS III", MaxTime), 2)>>,
        <<NewEvent(e("D3", "CLASS I", NaT), 1), NewEvent(e("D3", "OTHER", 1), 2)>>}

InitRequest ==
    /\ events \in RequestStores
    /\ out = NoOut
    /\ resolved = NoResolved
    /\ req = NoRequest
    /\ storeUp \in BOOLEAN

\* main(): the flags are parsed; as_of is the time the features are built at
Submit ==
    /\ req.pc = "idle"
    /\ \E ns \in RequestInputs, as_of \in {1, MaxTime + TicksPerDay},
          model_exists \in BOOLEAN :
          req' = [pc |-> "validate", ns |-> ns, as_of |-> as_of,
                  model_exists |-> model_exists, manufacturer_id |-> None,
                  dev_counts |-> ZeroDeviceHistory,
                  mfr_counts |-> ZeroManufacturerHistory,
                  features |-> <<>>, row |-> NoRow, pred |-> None,
                  exit |-> -1, stderr |-> "", raised |-> "", store_failed |-> FALSE]
    /\ UNCHANGED <<events, out, resolved, storeUp>>

\* run_pre_multiclass_from_flags: the required flags, then the model file;
\* then _build_pre_features_with_mongo_from_flags starts with the static part
Validate ==
    /\ req.pc = "validate"
    /\ req' = IF RequiredMissing(req.ns) THEN Raise(req, "ValueError")
              ELSE IF ~req.model_exists THEN Raise(req, "FileNotFoundError")
              ELSE [req EXCEPT !.pc = "lookup",
                               !.features = StaticFeatures(req.ns),
                               !.manufacturer_id = req.ns.manufacturer_id]
    /\ UNCHANGED <<events, out, resolved, storeUp>>

\* if not manufacturer_id and device_id: look the manufacturer up
LookupManufacturer ==
    /\ req.pc = "lookup"
    /\ req' = IF req.manufacturer_id = None /\ req.ns.device_id # None
              THEN IF storeUp
                   THEN [req EXCEPT !.pc = "device",
                            !.manufacturer_id = get_device_manufacturer_id(req.ns.device_id)]
                   ELSE [Raise(req, "StoreUnavailable") EXCEPT !.store_failed = TRUE]
              ELSE [req EXCEPT !.pc = "device"]
    /\ UNCHANGED <<events, out, resolved, storeUp>>

\* faulty variant of the device-history step: a failed store call is
\* swallowed and the request goes on with the zero snapshot
DeviceHistoryStep_Masked ==
    /\ req.pc = "device"
    /\ req' = IF req.ns.device_id # None /\ storeUp
              THEN [req EXCEPT !.pc = "manufacturer",
                       !.dev_counts = device_history(events, req.ns.device_id, req.as_of)]
              ELSE [req EXCEPT !.pc = "manufacturer", !.dev_counts = ZeroDeviceHistory]
    /\ UNCHANGED <<events, out, resolved, storeUp>>

\* dev_counts: the zero snapshot, or _device_history when a device_id is given
DeviceHistoryStep ==
    /\ req.pc = "device"
    /\ req' = IF req.ns.device_id # None
              THEN IF storeUp
                   THEN [req EXCEPT !.pc = "manufacturer",
                            !.dev_counts = device_history(events, req.ns.device_id, req.as_of)]
                   ELSE [Raise(req, "StoreUnavailable") EXCEPT !.store_failed = TRUE]
              ELSE [req EXCEPT !.pc = "manufacturer", !.dev_counts = ZeroDeviceHistory]
    /\ UNCHANGED <<events, out, resolved, storeUp>>

\* mfr_counts: the zero snapshot, or _manufacturer_history when the
\* manufacturer is known; then out.update(...)
ManufacturerHistoryStep ==
    /\ req.pc = "manufacturer"
    /\ req' = IF req.manufacturer_id # None
              THEN IF storeUp
                   THEN LET m == manufacturer_history(events, req.manufacturer_id, req.as_of)
                        IN [req EXCEPT !.pc = "predict", !.mfr_counts = m,
                               !.features = @ @@ HistoryFeatures(req.dev_counts, m)]
                   ELSE [Raise(req, "StoreUnavailable") EXCEPT !.store_failed = TRUE]
              ELSE [req EXCEPT !.pc = "predict", !.mfr_counts = ZeroManufacturerHistory,
                       !.features = @ @@ HistoryFeatures(req.dev_counts,
                                                         ZeroManufacturerHistory)]
    /\ UNCHANGED <<events, out, resolved, storeUp>>

\* the row is assembled in PRE_FEATURES order, the classifier returns one of
\* its classes, main prints the result and exits with 0
Predict(c) ==
    /\ req.pc = "predict"
    /\ req' = [req EXCEPT !.pc = "done", !.row = FeatureRow(req.features),
                          !.pred = c, !.exit = 0]
    /\ UNCHANGED <<events, out, resolved, storeUp>>

\* model.predict(X) raises on the assembled row: nothing is printed
PredictRaises ==
    /\ req.pc = "predict"
    /\ req' = [Raise(req, "ModelError") EXCEPT !.row = FeatureRow(req.features)]
    /\ UNCHANGED <<events, out, resolved, storeUp>>

\* the store becomes unreachable, or reachable again, while a request runs
StoreFlips ==
    /\ req.pc \in {"lookup", "device", "manufacturer"}
    /\ storeUp' = ~storeUp
    /\ UNCHANGED <<events, out, resolved, req>>

NextRequest ==
    \/ Submit
    \/ Validate
    \/ LookupManufacturer
    \/ DeviceHistoryStep
    \/ ManufacturerHistoryStep
    \/ \E c \in LabeledClasses : Predict(c)
    \/ PredictRaises
    \/ StoreFlips

SpecRequest == InitRequest /\ [][NextRequest]_vars

\* ------------------------------------------------------ reading the output
DevCounts(r) ==
    <<r.dev_is_I_cum_past, r.dev_is_II_cum_past, r.dev_is_III_cum_past,
      r.device_past_recalls_total>>

MfrCounts(r) ==
    <<r.mfr_is_I_cum_past, r.mfr_is_II_cum_past, r.mfr_is_III_cum_past,
      r.mfr_past_recalls_total>>

IsSnapshot(o) == o.kind \in {"device", "manufacturer"}

SnapCounts(o) == IF o.kind = "device" THEN DevCounts(o) ELSE MfrCounts(o)

\* the snapshot a query of this kind returns on a given log
Snapshot(kind, id, as_of, store) ==
    [kind |-> kind, id |-> id, as_of |-> as_of]
      @@ (IF kind = "device" THEN device_history(store, id, as_of)
          ELSE manufacturer_history(store, id, as_of))

Prefix(s, m) == SubSeq(s, 1, m)

\* no candidate field of the event holds a time
Unresolvable(e) ==
    e.date \notin Times /\ e.date_posted \notin Times /\ e.date_updated \notin Times

IsResolvable(e) == ~Unresolvable(e)

ResolvableOnly(store) == SelectSeq(store, IsResolvable)

Relabel(store, i, c) == [store EXCEPT ![i].action_classification = c]

RowById(rows, id) == rows[CHOOSE p \in 1..Len(rows) : rows[p].id = id]

\* --------------------------------------------------------------- claims
\* C1 (as claimed): for every row e of the training table, the online
\* aggregation for e's device (manufacturer) at cutoff as_of = e's event_time
\* returns the three per-class counts and the total the batch attached to e.
C1_BatchOnlineEquivalence ==
    out.kind = "batch" =>
        LET store == Prefix(events, out.n)
        IN \A p \in 1..Len(out.rows) :
              LET r == out.rows[p]
              IN /\ DevCounts(device_history(store, r.device_id, r.event_time))
                      = DevCounts(r)
                 /\ r.manufacturer_id # NoId =>
                      MfrCounts(manufacturer_history(store, r.manufacturer_id,
                                                     r.event_time)) = MfrCounts(r)

\* the counts attached to a row do not change when the row's own label is
\* replaced by another class
C2_OwnLabelNotCounted ==
    out.kind = "batch" =>
        \A p \in 1..Len(out.rows), c \in LabeledClasses :
            LET r == out.rows[p]
                t == BatchTable(Relabel(Prefix(events, out.n), r.id, c))
            IN /\ DevCounts(RowById(t, r.id)) = DevCounts(r)
               /\ MfrCounts(RowById(t, r.id)) = MfrCounts(r)

\* within one device, events of equal event_time are ordered as ingested
C2_DeviceTiesInIngestionOrder ==
    out.kind = "batch" =>
        LET rows == sort_values(LoadFrame(Prefix(events, out.n)), "device_id")
        IN \A p, q \in 1..Len(rows) :
              (p < q /\ rows[p].device_id = rows[q].device_id
                     /\ rows[p].event_time = rows[q].event_time)
                  => rows[p].id < rows[q].id

\* within one manufacturer, events of equal event_time are ordered as
\* ingested (the table is left in the order of the manufacturer sort)
C2_ManufacturerTiesInIngestionOrder ==
    out.kind = "batch" =>
        \A p, q \in 1..Len(out.rows) :
            (p < q /\ out.rows[p].manufacturer_id # NoId
                   /\ out.rows[p].manufacturer_id = out.rows[q].manufacturer_id
                   /\ out.rows[p].event_time = out.rows[q].event_time)
                => out.rows[p].id < out.rows[q].id

\* C2 (as claimed): in batch mode no count attached to an event includes the
\* event itself, and among events of one entity with equal event_time the
\* earlier-ingested one is ordered first.
C2_Exclusivity ==
    /\ C2_OwnLabelNotCounted
    /\ C2_DeviceTiesInIngestionOrder
    /\ C2_ManufacturerTiesInIngestionOrder

\* C3: a snapshot returned for an entity at cutoff T1 is, count by count and
\* in total, at most what a query for the same entity returns at any cutoff
\* T2 >= T1 on the log as it is now or has grown to since.
C3_Monotone ==
    IsSnapshot(out) =>
        \A T2 \in AsOfs :
            T2 >= out.as_of =>
                \A i \in 1..4 :
                    SnapCounts(Snapshot(out.kind, out.id, T2, events))[i]
                        >= SnapCounts(out)[i]

\* C3 witness: a snapshot with history, and a later cutoff at which the
\* entity's total is strictly larger
C3_Witness ==
    /\ out.kind = "device"
    /\ out.device_past_recalls_total >= 1
    /\ \E T2 \in AsOfs :
          /\ T2 > out.as_of
          /\ device_history(events, out.id, T2).device_past_recalls_total
                > out.device_past_recalls_total

\* C7: an event none of whose candidate fields holds a time is excluded in
\* both modes: a snapshot equals the snapshot of the log it read with those
\* events removed (counts, total and last-prior time), and the batch table
\* equals the table of the log with those events removed and has no row for
\* such an event.
C7_UnresolvableExcluded ==
    /\ IsSnapshot(out) =>
          \E m \in 0..Len(events) :
              out = Snapshot(out.kind, out.id, out.as_of,
                             ResolvableOnly(Prefix(events, m)))
    /\ out.kind = "batch" =>
          /\ out.rows = BatchTable(ResolvableOnly(Prefix(events, out.n)))
          /\ \A p \in 1..Len(out.rows) : IsResolvable(events[out.rows[p].id])

\* C7 witness: the batch ran over a log holding a labeled event with no
\* resolvable time and produced rows for other events
C7_Witness ==
    /\ out.kind = "batch"
    /\ Len(out.rows) >= 1
    /\ \E i \in 1..out.n :
          Unresolvable(events[i]) /\ IsLabeled(events[i])

\* the first of the three fields, in the order date, date_posted,
\* date_updated, that is not null; null when all three are
FirstNonNull(r) ==
    LET f == <<r.date, r.date_posted, r.date_updated>>
        idx == {i \in 1..3 : f[i] # NaT}
    IN IF idx = {} THEN NaT ELSE f[CHOOSE i \in idx : \A j \in idx : i <= j]

\* C5: each resolver returns the value of the first non-null field of the
\* record it is given, in the order date, date_posted, date_updated, and "no
\* time" only when all three are null: choose_event_time on the parsed row,
\* _event_time_expr on the stored document.
C5_FallbackOrder ==
    /\ resolved.batch_done => resolved.batch = FirstNonNull(ParseDates(events[1]))
    /\ resolved.online_done => resolved.online = FirstNonNull(events[1])

\* C5 witness: date null, date_posted = 1, date_updated = 2 resolves to 1 in
\* both resolvers
C5_Witness ==
    /\ resolved.batch_done /\ resolved.online_done
    /\ events[1].date = NaT /\ events[1].date_posted = 1 /\ events[1].date_updated = 2
    /\ resolved.batch = 1 /\ resolved.online = 1

\* the time the online aggregation has for a document: the resolved value
\* when it is a date, no time otherwise
OnlineTime(v) == IF v \in Times THEN v ELSE NaT

\* C6 (as claimed): a present but malformed value is treated like a missing
\* one, so for every combination of null, malformed and valid fields the
\* batch and the online resolver give the same event_time, or both none.
C6_ResolversAgree ==
    (resolved.batch_done /\ resolved.online_done)
        => OnlineTime(resolved.online) = resolved.batch

\* the request is past the device-history step without having failed
PastDeviceStep ==
    req.pc \in {"manufacturer", "predict"} \/ (req.pc = "done" /\ req.row # NoRow)

\* the request is past the manufacturer-history step without having failed
PastManufacturerStep ==
    req.pc = "predict" \/ (req.pc = "done" /\ req.row # NoRow)

NoEventsOf(key, id) == \A i \in 1..Len(events) : events[i][key] # id

\* the next step of the request calls the store
StoreCallPending ==
    \/ req.pc = "lookup" /\ req.manufacturer_id = None /\ req.ns.device_id # None
    \/ req.pc = "device" /\ req.ns.device_id # None
    \/ req.pc = "manufacturer" /\ req.manufacturer_id # None

\* C4: a request whose device id is absent or has no events in the store gets
\* the device snapshot with the three class counts 0, total 0, no last-prior
\* time and days_since_prev = -1; the same for a manufacturer id that is
\* absent, cannot be determined from the device, or has no events; the
\* feature dict carries these values; and a history step that reaches the
\* store never ends the request.
C4_ZeroHistoryDefault ==
    /\ [](PastDeviceStep /\ (req.ns.device_id = None
                               \/ NoEventsOf("device_id", req.ns.device_id))
            => /\ DevCounts(req.dev_counts) = <<0, 0, 0, 0>>
               /\ req.dev_counts.device_prev_time = NaT
               /\ req.dev_counts.device_days_since_prev = -1)
    /\ [](PastManufacturerStep
             /\ (req.manufacturer_id = None
                   \/ NoEventsOf("manufacturer_id", req.manufacturer_id))
            => /\ MfrCounts(req.mfr_counts) = <<0, 0, 0, 0>>
               /\ req.mfr_counts.mfr_prev_time = NaT
               /\ req.mfr_counts.mfr_days_since_prev = -1
               /\ req.features.mfr_past_recalls_total = 0
               /\ req.features.mfr_days_since_prev = -1)
    /\ [](PastManufacturerStep
            => /\ DevCounts(req.features) = DevCounts(req.dev_counts)
               /\ req.features.device_days_since_prev
                    = req.dev_counts.device_days_since_prev
               /\ MfrCounts(req.features) = MfrCounts(req.mfr_counts))
    /\ [][(req.pc \in {"device", "manufacturer"} /\ storeUp /\ req' # req)
             => req'.pc # "done"]_vars

\* C4 witness: a prediction was returned for a device id the non-empty store
\* has no events of and no device document for, so that the manufacturer is
\* undetermined too
C4_Witness ==
    /\ req.pc = "done" /\ req.exit = 0
    /\ Len(events) >= 1
    /\ req.ns.device_id = "D0" /\ req.manufacturer_id = None
    /\ req.features.device_past_recalls_total = 0
    /\ req.features.device_days_since_prev = -1
    /\ req.features.mfr_days_since_prev = -1

\* C8: a store call made while the store cannot be reached ends the request
\* at once with ERROR on stderr and exit status 3, with no feature row and
\* no prediction; and a request that met an unreachable store never has a
\* row or a prediction.
C8_StoreFailurePropagates ==
    /\ [][(StoreCallPending /\ ~storeUp /\ req' # req)
            => /\ req'.pc = "done" /\ req'.exit = 3 /\ req'.stderr = "ERROR"
               /\ req'.store_failed
               /\ req'.row = NoRow /\ req'.pred = None]_vars
    /\ [](req.pc # "idle" /\ req.store_failed
            => /\ req.pc = "done" /\ req.exit = 3 /\ req.stderr = "ERROR"
               /\ req.row = NoRow /\ req.pred = None)

\* C8 witness: the store became unreachable after the manufacturer lookup and
\* the request failed in a history aggregation
C8_Witness ==
    /\ req.pc = "done" /\ req.store_failed /\ req.exit = 3
    /\ req.ns.manufacturer_id = None /\ req.manufacturer_id = "M1"

Names(seq) == {seq[i] : i \in 1..Len(seq)}

\* C9 (as claimed): every request the store and the model file serve ends
\* with a feature row that has all fields, a missing static attribute
\* replaced by its default.
C9_DefaultsForEveryRequest ==
    (req.pc = "done" /\ ~req.store_failed /\ req.model_exists)
        => /\ req.row # NoRow
           /\ DOMAIN req.row.values = Names(PRE_FEATURES)

\* C9 (amended): a request that lacks risk_class, classification, country or
\* parent_company is refused with an error and no row; for every other
\* request a missing implanted becomes 0 and a missing or unparseable
\* quantity_in_commerce becomes 0, and whenever a row is assembled it has
\* every field of PRE_FEATURES with these values.
C9_DefaultsAfterValidation ==
    /\ (req.pc # "idle" /\ RequiredMissing(req.ns) /\ req.pc # "validate")
          => (req.pc = "done" /\ req.exit = 3 /\ req.row = NoRow)
    /\ (req.pc \in {"lookup", "device", "manufacturer", "predict"} \/ 
        (req.pc = "done" /\ req.row # NoRow))
          => /\ req.ns.implanted = None => req.features.implanted = 0
             /\ req.ns.quantity_in_commerce \in {None, "abc"}
                   => req.features.quantity_in_commerce = 0
             /\ req.features.risk_class = req.ns.risk_class
             /\ req.features.risk_class # ""
    /\ (req.pc = "done" /\ req.row # NoRow)
          => /\ DOMAIN req.row.values = Names(PRE_FEATURES)
             /\ req.row.values.implanted = req.features.implanted
             /\ req.row.values.quantity_in_commerce
                  = req.features.quantity_in_commerce

\* C9 witness: a prediction for a request without implanted and with an
\* unparseable quantity_in_commerce
C9_Witness ==
    /\ req.pc = "done" /\ req.exit = 0
    /\ req.ns.implanted = None /\ req.ns.quantity_in_commerce = "abc"
    /\ req.row.values.implanted = 0 /\ req.row.values.quantity_in_commerce = 0

HistoryFields ==
    {"dev_is_I_cum_past", "dev_is_II_cum_past", "dev_is_III_cum_past",
     "device_past_recalls_total", "device_days_since_prev",
     "mfr_is_I_cum_past", "mfr_is_II_cum_past", "mfr_is_III_cum_past",
     "mfr_past_recalls_total", "mfr_days_since_prev"}

\* C10 (as claimed): the row handed to the classifier has the columns of the
\* training table, in the same order, and both hold the ten history fields.
C10_SchemaAgreement ==
    (req.pc = "done" /\ req.row # NoRow)
        => /\ req.row.columns = TrainColumns
           /\ HistoryFields \subseteq Names(req.row.columns)
           /\ HistoryFields \subseteq Names(TrainColumns)

\* the rows of `rows` before position p that have row p's value of `key` and
\* class cls
EarlierInGroup(rows, key, p, cls) ==
    {q \in 1..(p - 1) : rows[q][key] = rows[p][key]
                          /\ rows[q].action_classification = cls}

\* C11 (as claimed): in the batch table every *_cum_past of a row is the
\* number of events of that class of the row's own entity that are ordered
\* before it in the entity's group (device order for dev_*, manufacturer
\* order for mfr_*), each total is the sum of its three counts, so the first
\* event of an entity has all counts 0 whatever precedes it in the table, and
\* a row without manufacturer id has manufacturer counts 0.
C11_PerGroupExclusiveCounts ==
    out.kind = "batch" =>
        LET drows == sort_values(LoadFrame(Prefix(events, out.n)), "device_id")
            mrows == out.rows
            n(rows, key, p, cls) == Cardinality(EarlierInGroup(rows, key, p, cls))
        IN /\ \A p \in 1..Len(drows) :
                 DevCounts(RowById(mrows, drows[p].id))
                   = <<n(drows, "device_id", p, "CLASS I"),
                       n(drows, "device_id", p, "CLASS II"),
                       n(drows, "device_id", p, "CLASS III"),
                       Cardinality(UNION {EarlierInGroup(drows, "device_id", p, c) :
                                             c \in LabeledClasses})>>
           /\ \A p \in 1..Len(mrows) :
                 MfrCounts(mrows[p])
                   = IF mrows[p].manufacturer_id = NoId THEN <<0, 0, 0, 0>>
                     ELSE <<n(mrows, "manufacturer_id", p, "CLASS I"),
                            n(mrows, "manufacturer_id", p, "CLASS II"),
                            n(mrows, "manufacturer_id", p, "CLASS III"),
                            Cardinality(UNION {EarlierInGroup(mrows, "manufacturer_id",
                                                              p, c) :
                                                  c \in LabeledClasses})>>

\* the event times, as the online resolver gives them, of the events of
\* entity `id` in `store` that are times and not after as_of
PriorTimes(store, key, id, as_of) ==
    {event_time_expr(store[i]) : i \in {j \in 1..Len(store) :
        /\ store[j][key] = id
        /\ event_time_expr(store[j]) \in Times
        /\ event_time_expr(store[j]) <= as_of}}

SnapKey(o) == IF o.kind = "device" THEN "device_id" ELSE "manufacturer_id"

SnapDays(o) ==
    IF o.kind = "device" THEN o.device_days_since_prev ELSE o.mfr_days_since_prev

SnapPrevTime(o) == IF o.kind = "device" THEN o.device_prev_time ELSE o.mfr_prev_time

\* C12: in a snapshot returned for a log on which the entity has an event
\* with a resolved time <= as_of, days_since_prev is the number d >= 0 of
\* whole days between the latest such time and as_of (d days <= as_of - last
\* < d + 1 days); on a log with no such event it is -1.
C12_DaysSincePrev ==
    IsSnapshot(out) =>
        \A m \in 0..Len(events) :
            out = Snapshot(out.kind, out.id, out.as_of, Prefix(events, m)) =>
                LET prior == PriorTimes(Prefix(events, m), SnapKey(out), out.id,
                                        out.as_of)
                    d == SnapDays(out)
                IN IF prior = {} THEN d = -1
                   ELSE /\ d >= 0
                        /\ d * TicksPerDay <= out.as_of - SetMax(prior)
                        /\ out.as_of - SetMax(prior) < (d + 1) * TicksPerDay

\* C12 witness: a snapshot whose latest prior event is less than a day before
\* the cutoff, so that days_since_prev is 0
C12_Witness ==
    /\ IsSnapshot(out)
    /\ SnapPrevTime(out) \in Times
    /\ SnapPrevTime(out) < out.as_of
    /\ SnapDays(out) = 0

\* C13 (as claimed): in every snapshot the total is the sum of the three
\* class counts, and days_since_prev is -1, with no last-prior time, exactly
\* when the total is 0.
C13_CountRecencyConsistent ==
    IsSnapshot(out) =>
        /\ SnapCounts(out)[4]
             = SnapCounts(out)[1] + SnapCounts(out)[2] + SnapCounts(out)[3]
        /\ (SnapDays(out) = -1 /\ SnapPrevTime(out) = NaT) <=> SnapCounts(out)[4] = 0

\* the part of C13 that every snapshot has: the total is the sum of the
\* three class counts, a positive total comes with a last-prior time and
\* days_since_prev >= 0, and days_since_prev is -1 exactly when there is no
\* last-prior time
C13_TotalIsSumOfClasses ==
    IsSnapshot(out) =>
        /\ SnapCounts(out)[4]
             = SnapCounts(out)[1] + SnapCounts(out)[2] + SnapCounts(out)[3]
        /\ SnapCounts(out)[4] > 0 => (SnapDays(out) >= 0 /\ SnapPrevTime(out) \in Times)
        /\ SnapDays(out) = -1 <=> SnapPrevTime(out) = NaT

====
